---- MODULE Spec2Model ----
(***************************************************************************)
(* Chemical-Equipment-Visualizer: the upload / history / eviction path of  *)
(* the two backends of the repository.                                     *)
(*                                                                         *)
(*   "api"        src/backend/equipment_api/api/views.py                   *)
(*                (history per authenticated user, raw file stored)        *)
(*   "equipment"  src/backend/chemical_equipment/equipment/views.py        *)
(*                (one global history, Equipment rows stored)              *)
(*                                                                         *)
(* A deployment runs one backend; Init chooses it.  Every database         *)
(* statement of a handler is one step (neither handler opens a transaction *)
(* or takes a lock).  Spec serves one request at a time, starting from an  *)
(* empty database; ParSpec lets the statements of parallel uploads         *)
(* interleave, starting from a database that holds a full history;         *)
(* OvertakeSpec lets at most MaxInFlight uploads be in flight at a time,   *)
(* starting from an empty database.  These three keep of a Dataset what    *)
(* the history needs.  PipeSpec runs each handler as one step and keeps    *)
(* the content: the uploaded table, the summary, the Equipment rows, the   *)
(* responses and the report.  ClientSpec is the desktop client             *)
(* (src/frontend-desktop/main.py) against a server that may answer any     *)
(* request either way.                                                     *)
(* RegisterSpec is register and login of equipment_api, statement by       *)
(* statement, with any number of calls in flight.                          *)
(***************************************************************************)
EXTENDS Integers, Sequences, FiniteSets, TLC

VARIABLES
    backend,    \* which backend is deployed
    datasets,   \* the Dataset table: a set of rows
    storage,    \* ids of the Datasets whose raw file is held by the file storage
    nextId,     \* the next auto-increment primary key
    now,        \* the clock reading handed out last (timezone.now()); 0: none yet
    ties,       \* how many readings so far were equal to the one before
    pc,         \* pc[i]: where the upload that created Dataset i stands
    req,        \* req[i]: what that upload was asked (user, input)
    tail,       \* tail[i]: the rows its eviction query returned, not yet deleted
    created,    \* history: created[i] = the scope and uploaded_at create() gave Dataset i
    rejected,   \* the error response of the upload asked last, if it stopped before create()
    \* The content of the tables and of the responses (PipeSpec).
    equipment,      \* the Equipment table, in primary-key order
    details,        \* details[id]: the filename and the summary columns of Dataset id
    request,        \* the payload of the upload served last
    reply,          \* the response of the upload served last
    report,         \* the response of the generate_pdf served last
    \* The desktop client (ClientSpec).
    token,              \* MainWindow.token
    current_data,       \* MainWindow.current_data
    current_summary,    \* MainWindow.current_summary
    selected_file,      \* MainWindow.selected_file; NoAttr until browse_file sets it
    login_windows,      \* how many LoginWindows are open
    history_table,      \* the dataset ids whose rows (and PDF buttons) history_table shows
    sent,               \* the requests the client has sent, oldest first
    \* The accounts (RegisterSpec).
    auth_user,          \* the table of django.contrib.auth's User: a set of rows
    authtoken_token,    \* the table of rest_framework.authtoken's Token: a set of rows
    registering         \* registering[c]: where register call c stands, and its response

content == <<equipment, details, request, reply, report>>

client == <<token, current_data, current_summary, selected_file, login_windows, history_table, sent>>

accounts == <<auth_user, authtoken_token, registering>>

vars == <<backend, datasets, storage, nextId, now, ties, pc, req, tail, created, rejected,
          content, client, accounts>>

\* The literal 5 of `user_datasets.count() > 5`, `user_datasets[5:]`, `[:5]`, `all()[5:]`.
MAX_HISTORY == 5

\* Bound: how many uploads may reach Dataset.objects.create in one behaviour
\* when requests are served one at a time.
MaxUploads == 7

\* Bound: how many uploads may run in parallel, on top of a full history.
MaxParallel == 2

\* Bound: how many times the clock may return the reading it returned last.
MaxTies == 1

Users == {"alice", "bob"}
Backends == {"api", "equipment"}
Ids == 1..(IF MaxUploads > MAX_HISTORY + MaxParallel THEN MaxUploads ELSE MAX_HISTORY + MaxParallel)

-----------------------------------------------------------------------------
(* The uploaded file, as pandas sees it.                                   *)

required_cols == <<"Equipment Name", "Type", "Flowrate", "Pressure", "Temperature">>
numeric_cols == {"Flowrate", "Pressure", "Temperature"}

Range(s) == {s[k] : k \in DOMAIN s}

\* An empty cell: read_csv gives NaN.
NaN == ""

\* The cell texts read_csv parses as numbers.
NumberTexts == {"10", "20", "5", "7", "300", "310", "-5", "686", "1366"}

Row(n, t, f, p, temp) ==
    [c \in Range(required_cols) |->
        CASE c = "Equipment Name" -> n
          [] c = "Type" -> t
          [] c = "Flowrate" -> f
          [] c = "Pressure" -> p
          [] OTHER -> temp]

Project(r, cols) == [c \in cols |-> r[c]]

ValidRows == << Row("Pump1", "Pump", "10", "5", "300"), Row("Valve1", "Valve", "20", "7", "310") >>

\* A well-formed file with the five columns and two good rows.
GoodCsv == [name |-> "data.csv", parses |-> TRUE, columns |-> Range(required_cols), rows |-> ValidRows]

\* The same file under a name that does not end in .csv.
TxtCsv == [GoodCsv EXCEPT !.name = "data.txt"]

\* Bytes read_csv cannot tokenize (it raises).
MalformedCsv == [name |-> "broken.csv", parses |-> FALSE, columns |-> {}, rows |-> << >>]

\* Pressure and Temperature columns absent.
ShortCsv ==
    [name |-> "short.csv", parses |-> TRUE,
     columns |-> {"Equipment Name", "Type", "Flowrate"},
     rows |-> << Project(ValidRows[1], {"Equipment Name", "Type", "Flowrate"}) >>]

\* Every row has one empty required cell.
HolesCsv ==
    [name |-> "holes.csv", parses |-> TRUE, columns |-> Range(required_cols),
     rows |-> << Row("Pump1", NaN, "10", "5", "300"), Row(NaN, "Valve", "20", "7", "310") >>]

\* One good row and one row whose Flowrate is not a number.
TextCsv ==
    [name |-> "text.csv", parses |-> TRUE, columns |-> Range(required_cols),
     rows |-> << Row("Pump1", "Pump", "10", "5", "300"), Row("Valve1", "Valve", "abc", "7", "310") >>]

CsvFiles == {GoodCsv, TxtCsv, MalformedCsv, ShortCsv, HolesCsv, TextCsv}

\* request.FILES: either no 'file' part, or one of the files.
NoFile == [name |-> "", parses |-> FALSE, columns |-> {}, rows |-> << >>]
Payloads == [has_file : {TRUE}, file : CsvFiles] \cup {[has_file |-> FALSE, file |-> NoFile]}

\* [col for col in required_columns if col not in df.columns]
missing_columns(f) == SelectSeq(required_cols, LAMBDA c : c \notin f.columns)

\* df.dropna(subset=required_columns)
dropna(rows) == SelectSeq(rows, LAMBDA r : \A c \in Range(required_cols) : r[c] # NaN)

\* read_csv gives a column a numeric dtype iff every non-empty cell parses.
NumericColumn(rows, c) == \A k \in DOMAIN rows : rows[k][c] = NaN \/ rows[k][c] \in NumberTexts

\* Series.mean() of a column of object dtype raises TypeError.
MeanRaises(rows) == \E c \in numeric_cols : ~NumericColumn(rows, c)

-----------------------------------------------------------------------------
(* The Dataset table.                                                      *)

NoRow == [id |-> 0, user |-> "", uploaded_at |-> 0, file |-> FALSE, total |-> 0,
          summary |-> FALSE, equipment |-> 0]

\* The owner scope a row counts toward: the user in "api"
\* (Dataset.objects.filter(user=request.user)), everything in "equipment"
\* (Dataset.objects.all()).
Global == "all"
ScopeOf(u) == IF backend = "api" THEN u ELSE Global
Scopes == IF backend = "api" THEN Users ELSE {Global}

\* Mutant of user_datasets: the filter on the user left out.
all_users_datasets(u) == datasets

\* Dataset.objects.filter(user=request.user) / Dataset.objects.all()
user_datasets(u) == {d \in datasets : ScopeOf(d.user) = ScopeOf(u)}

Newest(S) == {d \in S : \A e \in S : e.uploaded_at <= d.uploaded_at}

\* Meta.ordering = ['-uploaded_at']: every order of the rows that is descending in
\* uploaded_at.  Rows with equal uploaded_at have no order prescribed; the database
\* may return them either way.
RECURSIVE Orderings(_)
Orderings(S) ==
    IF S = {} THEN {<< >>}
    ELSE UNION { { <<d>> \o o : o \in Orderings(S \ {d}) } : d \in Newest(S) }

\* The ordering of the "equipment" backend's Dataset model (its models.py is not
\* among the sources): createdAt descending.
EqOrderings(S) == Orderings(S)

QueryOrderings(S) == IF backend = "api" THEN Orderings(S) ELSE EqOrderings(S)

\* Mutant of SliceFrom: the slice starts one row too late.
SliceFromNext(S) == { SubSeq(o, MAX_HISTORY + 2, Len(o)) : o \in QueryOrderings(S) }

\* queryset[5:]
SliceFrom(S) == { SubSeq(o, MAX_HISTORY + 1, Len(o)) : o \in QueryOrderings(S) }

\* queryset[:5]
SliceTo(S) ==
    { SubSeq(o, 1, IF Len(o) < MAX_HISTORY THEN Len(o) ELSE MAX_HISTORY) : o \in QueryOrderings(S) }

\* get_history / DatasetViewSet.list: the answers the request may get.
list(u) == SliceTo(user_datasets(u))

\* Mutant of get: the lookup by id alone, whoever owns the row.
get_any_owner(u, id) ==
    LET hit == {d \in datasets : d.id = id}
    IN  IF hit = {} THEN NoRow ELSE CHOOSE d \in hit : TRUE

\* Dataset.objects.get(id=dataset_id, user=request.user) / self.get_object():
\* the row, or NoRow for Dataset.DoesNotExist (404).
get(u, id) ==
    LET hit == {d \in user_datasets(u) : d.id = id}
    IN  IF hit = {} THEN NoRow ELSE CHOOSE d \in hit : TRUE

\* auto_now_add (timezone.now()): the clock never runs backwards, and a reading
\* may equal the one before it.
Readings == {now + 1} \cup (IF now > 0 /\ ties < MaxTies THEN {now} ELSE {})

\* The clock after the reading t.
Read(t) ==
    /\ now' = t
    /\ ties' = IF t = now THEN ties + 1 ELSE ties

RowWithId(id) == {d \in datasets : d.id = id}

\* Model.save(): UPDATE the row with this pk; if there is none, INSERT it, and
\* an INSERT sets an auto_now_add field to the current time.
Save(row, t) ==
    IF RowWithId(row.id) # {}
    THEN (datasets \ RowWithId(row.id)) \cup {row}
    ELSE datasets \cup {[row EXCEPT !.uploaded_at = t]}

\* Model.delete(): DELETE the row with this pk (and, by cascade, its Equipment rows).
Delete(id) == datasets \ RowWithId(id)

\* Mutant of StorageDelete: the file is left in the storage.
StorageKeep(id) == storage

\* storage.delete(name)
StorageDelete(id) == storage \ {id}

-----------------------------------------------------------------------------

NoError == [error |-> "", columns |-> << >>]

NoReq == [user |-> "", raises |-> FALSE, total |-> 0, uploaded_at |-> 0]

\* Python's None, and a value that is not None.
None == << >>
Some(x) == <<x>>

\* {} (an empty dict), and d.get(key, default).
EmptyDict == << >>
DictGet(d, key, default) == IF key \in DOMAIN d THEN d[key] ELSE default

NoDetails == [filename |-> "", summary |-> EmptyDict]
NoResponse == [status |-> 0, error |-> "", columns |-> << >>, dataset_id |-> 0, data |-> << >>]
NoReport == [status |-> 0]

\* hasattr(self, 'selected_file') is False.
NoAttr == "no attribute"

\* The content is not kept.
NoContent ==
    /\ equipment = << >>
    /\ details = [i \in Ids |-> NoDetails]
    /\ request = [has_file |-> FALSE, file |-> NoFile]
    /\ reply = NoResponse
    /\ report = NoReport

\* Bound: how many register calls are made in one behaviour.
MaxCalls == 3

Calls == 1..MaxCalls

\* A register call that has not been made; a response that has not been given.
NoAnswer == [status |-> 0, error |-> "", token |-> "", user |-> 0]
NoCall == [at |-> "new", username |-> None, password |-> None, user |-> 0, response |-> NoAnswer]

\* No user has registered and no register call has been made.
NoAccounts ==
    /\ auth_user = {}
    /\ authtoken_token = {}
    /\ registering = [c \in Calls |-> NoCall]

\* No client is running.
NoClient ==
    /\ token = None
    /\ current_data = None
    /\ current_summary = None
    /\ selected_file = NoAttr
    /\ login_windows = 0
    /\ history_table = {}
    /\ sent = << >>

\* The upload that created Dataset i has answered: its locals are gone.
Answer(i, response) ==
    /\ pc' = [pc EXCEPT ![i] = response]
    /\ req' = [req EXCEPT ![i] = NoReq]

Init ==
    /\ backend \in Backends
    /\ datasets = {}
    /\ storage = {}
    /\ nextId = 1
    /\ now = 0
    /\ ties = 0
    /\ pc = [i \in Ids |-> "new"]
    /\ req = [i \in Ids |-> NoReq]
    /\ tail = [i \in Ids |-> << >>]
    /\ created = << >>
    /\ rejected = NoError
    /\ NoContent
    /\ NoClient
    /\ NoAccounts

-----------------------------------------------------------------------------
(* Backend "api": upload_csv.                                              *)

\* The error response upload_csv gives before it creates anything, or NoError.
\* The statistics are computed on df itself: no row is dropped.
ApiError(p) ==
    CASE ~p.has_file -> [error |-> "No file uploaded", columns |-> << >>]
      [] p.has_file /\ ~p.file.parses -> [error |-> "str(e)", columns |-> << >>]
      [] p.has_file /\ p.file.parses /\ missing_columns(p.file) # << >> ->
            [error |-> "Invalid CSV format. Required columns: ", columns |-> required_cols]
      [] p.has_file /\ p.file.parses /\ missing_columns(p.file) = << >> /\ MeanRaises(p.file.rows) ->
            [error |-> "str(e)", columns |-> << >>]
      [] OTHER -> NoError

ApiReject(p) ==
    /\ backend = "api"
    /\ ApiError(p) # NoError
    /\ rejected' = ApiError(p)
    /\ UNCHANGED <<accounts, client, content, backend, datasets, storage, nextId, now, ties, pc, req, tail, created>>

\* Dataset.objects.create(user=request.user, filename=..., file=file, total_count=...,
\* avg_...=..., equipment_types=...): one INSERT, the file saved to storage with it.
ApiCreate(u, p) ==
    /\ backend = "api"
    /\ ApiError(p) = NoError
    /\ \E t \in Readings :
        LET dataset == [id |-> nextId, user |-> u, uploaded_at |-> t, file |-> TRUE,
                        total |-> Len(p.file.rows), summary |-> TRUE, equipment |-> 0]
        IN  /\ datasets' = datasets \cup {dataset}
            /\ storage' = storage \cup {nextId}
            /\ Read(t)
            /\ created' = Append(created, [scope |-> ScopeOf(u), uploaded_at |-> t])
            /\ req' = [req EXCEPT ![nextId] =
                        [user |-> u, raises |-> FALSE, total |-> Len(p.file.rows), uploaded_at |-> t]]
    /\ pc' = [pc EXCEPT ![nextId] = "count"]
    /\ nextId' = nextId + 1
    /\ rejected' = NoError
    /\ UNCHANGED <<accounts, client, content, backend, tail>>

\* if user_datasets.count() > 5:   (else: the success response)
ApiCount(i) ==
    /\ backend = "api"
    /\ pc[i] = "count"
    /\ IF Cardinality(user_datasets(req[i].user)) > MAX_HISTORY
       THEN pc' = [pc EXCEPT ![i] = "slice"] /\ UNCHANGED req
       ELSE Answer(i, "ok")
    /\ UNCHANGED <<accounts, client, content, backend, datasets, storage, nextId, now, ties, tail, created, rejected>>

\* old_datasets = user_datasets[5:]; the for loop runs the query once.
ApiSlice(i) ==
    /\ backend = "api"
    /\ pc[i] = "slice"
    /\ \E old_datasets \in SliceFrom(user_datasets(req[i].user)) :
        /\ tail' = [tail EXCEPT ![i] = old_datasets]
        /\ IF old_datasets = << >>
           THEN Answer(i, "ok")
           ELSE pc' = [pc EXCEPT ![i] = "file_delete"] /\ UNCHANGED req
    /\ UNCHANGED <<accounts, client, content, backend, datasets, storage, nextId, now, ties, created, rejected>>

\* old_ds.file.delete(): FieldFile.delete(save=True) does nothing for an empty
\* name; otherwise it deletes the file from storage, clears the field and calls
\* old_ds.save().
ApiFileDelete(i) ==
    /\ backend = "api"
    /\ pc[i] = "file_delete"
    /\ LET old_ds == Head(tail[i])
       IN  IF old_ds.file
           THEN /\ storage' = StorageDelete(old_ds.id)
                /\ IF RowWithId(old_ds.id) # {}
                   THEN /\ datasets' = Save([old_ds EXCEPT !.file = FALSE], now)
                        /\ UNCHANGED <<now, ties>>
                   ELSE \E t \in Readings :
                        /\ datasets' = Save([old_ds EXCEPT !.file = FALSE], t)
                        /\ Read(t)
           ELSE UNCHANGED <<storage, datasets, now, ties>>
    /\ pc' = [pc EXCEPT ![i] = "delete"]
    /\ UNCHANGED <<accounts, client, content, backend, nextId, req, tail, created, rejected>>

\* old_ds.delete(), then the next old_ds or the success response.
ApiDelete(i) ==
    /\ backend = "api"
    /\ pc[i] = "delete"
    /\ datasets' = Delete(Head(tail[i]).id)
    /\ tail' = [tail EXCEPT ![i] = Tail(tail[i])]
    /\ IF Tail(tail[i]) = << >>
       THEN Answer(i, "ok")
       ELSE pc' = [pc EXCEPT ![i] = "file_delete"] /\ UNCHANGED req
    /\ UNCHANGED <<accounts, client, content, backend, storage, nextId, now, ties, created, rejected>>

-----------------------------------------------------------------------------
(* Backend "equipment": DatasetViewSet.upload.                             *)

\* csv_file.name.endswith('.csv')
CsvNames == {"data.csv", "broken.csv", "short.csv", "holes.csv", "text.csv"}

\* The error response upload gives before it creates anything, or NoError.
EqError(p) ==
    CASE ~p.has_file -> [error |-> "No file provided", columns |-> << >>]
      [] p.has_file /\ p.file.name \notin CsvNames ->
            [error |-> "File must be CSV format", columns |-> << >>]
      [] p.has_file /\ p.file.name \in CsvNames /\ ~p.file.parses ->
            [error |-> "Error processing CSV: ", columns |-> << >>]
      [] p.has_file /\ p.file.name \in CsvNames /\ p.file.parses /\ missing_columns(p.file) # << >> ->
            [error |-> "Missing required columns: ", columns |-> missing_columns(p.file)]
      [] p.has_file /\ p.file.name \in CsvNames /\ p.file.parses /\ missing_columns(p.file) = << >>
            /\ Len(dropna(p.file.rows)) = 0 ->
            [error |-> "No valid data found in CSV", columns |-> << >>]
      [] OTHER -> NoError

EqReject(p) ==
    /\ backend = "equipment"
    /\ EqError(p) # NoError
    /\ rejected' = EqError(p)
    /\ UNCHANGED <<accounts, client, content, backend, datasets, storage, nextId, now, ties, pc, req, tail, created>>

\* Dataset.objects.create(user=..., filename=..., total_records=len(df_clean)):
\* the row is inserted before the statistics are computed.
EqCreate(u, p) ==
    /\ backend = "equipment"
    /\ EqError(p) = NoError
    /\ \E t \in Readings :
        LET dataset == [id |-> nextId, user |-> u, uploaded_at |-> t, file |-> FALSE,
                        total |-> Len(dropna(p.file.rows)), summary |-> FALSE, equipment |-> 0]
        IN  /\ datasets' = datasets \cup {dataset}
            /\ Read(t)
            /\ created' = Append(created, [scope |-> ScopeOf(u), uploaded_at |-> t])
            /\ req' = [req EXCEPT ![nextId] =
                        [user |-> u, raises |-> MeanRaises(p.file.rows),
                         total |-> Len(dropna(p.file.rows)), uploaded_at |-> t]]
    /\ pc' = [pc EXCEPT ![nextId] = "stats"]
    /\ nextId' = nextId + 1
    /\ rejected' = NoError
    /\ UNCHANGED <<accounts, client, content, backend, storage, tail>>

\* summary = {... float(df_clean['Flowrate'].mean()) ...}; dataset.set_summary_data(summary);
\* dataset.save().  An exception goes to the except clause: the error response.
EqStats(i) ==
    /\ backend = "equipment"
    /\ pc[i] = "stats"
    /\ IF req[i].raises
       THEN /\ Answer(i, "error")
            /\ UNCHANGED <<datasets, now, ties>>
       ELSE LET dataset == [id |-> i, user |-> req[i].user, uploaded_at |-> req[i].uploaded_at,
                            file |-> FALSE, total |-> req[i].total, summary |-> TRUE, equipment |-> 0]
            IN  /\ IF RowWithId(i) # {}
                   THEN datasets' = Save(dataset, now) /\ UNCHANGED <<now, ties>>
                   ELSE \E t \in Readings : datasets' = Save(dataset, t) /\ Read(t)
                /\ pc' = [pc EXCEPT ![i] = "bulk"]
                /\ UNCHANGED req
    /\ UNCHANGED <<accounts, client, content, backend, storage, nextId, tail, created, rejected>>

\* Equipment.objects.bulk_create(equipment_list): the rows reference the Dataset;
\* with its row gone the foreign key fails (IntegrityError, the error response).
EqBulkCreate(i) ==
    /\ backend = "equipment"
    /\ pc[i] = "bulk"
    /\ IF RowWithId(i) = {}
       THEN /\ Answer(i, "error")
            /\ UNCHANGED datasets
       ELSE /\ datasets' = {IF d.id = i THEN [d EXCEPT !.equipment = req[i].total] ELSE d : d \in datasets}
            /\ pc' = [pc EXCEPT ![i] = "slice"]
            /\ UNCHANGED req
    /\ UNCHANGED <<accounts, client, content, backend, storage, nextId, now, ties, tail, created, rejected>>

\* old_datasets = Dataset.objects.all()[5:]
EqSlice(i) ==
    /\ backend = "equipment"
    /\ pc[i] = "slice"
    /\ \E old_datasets \in SliceFrom(user_datasets(req[i].user)) :
        /\ tail' = [tail EXCEPT ![i] = old_datasets]
        /\ IF old_datasets = << >>
           THEN Answer(i, "ok")
           ELSE pc' = [pc EXCEPT ![i] = "delete"] /\ UNCHANGED req
    /\ UNCHANGED <<accounts, client, content, backend, datasets, storage, nextId, now, ties, created, rejected>>

\* old_dataset.delete(), then the next one or the 201 response.
EqDelete(i) ==
    /\ backend = "equipment"
    /\ pc[i] = "delete"
    /\ datasets' = Delete(Head(tail[i]).id)
    /\ tail' = [tail EXCEPT ![i] = Tail(tail[i])]
    /\ IF Tail(tail[i]) = << >>
       THEN Answer(i, "ok")
       ELSE pc' = [pc EXCEPT ![i] = "delete"] /\ UNCHANGED req
    /\ UNCHANGED <<accounts, client, content, backend, storage, nextId, now, ties, created, rejected>>

-----------------------------------------------------------------------------

\* No upload is between its create() and its response.
AtRest == \A i \in Ids : pc[i] \in {"new", "ok", "error"}

\* The user whose uploads run in parallel.
Uploader == CHOOSE u \in Users : TRUE

\* One request at a time, of any user: an upload starts only when none is in
\* flight.  The views of "equipment" never read Dataset.user (its history is
\* global), so one user stands for all of them there.
Next ==
    \/ AtRest /\ \E p \in Payloads : ApiReject(p)
    \/ AtRest /\ nextId <= MaxUploads /\ \E u \in Users, p \in Payloads : ApiCreate(u, p)
    \/ \E i \in Ids : ApiCount(i)
    \/ \E i \in Ids : ApiSlice(i)
    \/ \E i \in Ids : ApiFileDelete(i)
    \/ \E i \in Ids : ApiDelete(i)
    \/ AtRest /\ \E p \in Payloads : EqReject(p)
    \/ AtRest /\ nextId <= MaxUploads /\ \E p \in Payloads : EqCreate(Uploader, p)
    \/ \E i \in Ids : EqStats(i)
    \/ \E i \in Ids : EqBulkCreate(i)
    \/ \E i \in Ids : EqSlice(i)
    \/ \E i \in Ids : EqDelete(i)

Spec == Init /\ [][Next]_vars

\* A database that already holds a full history: MAX_HISTORY earlier uploads of
\* one user, all answered, made at different times (the state Spec reaches by
\* MAX_HISTORY good uploads).
Loaded ==
    /\ backend \in Backends
    /\ datasets = { [id |-> k, user |-> Uploader, uploaded_at |-> k, file |-> (backend = "api"),
                     total |-> Len(ValidRows), summary |-> TRUE,
                     equipment |-> IF backend = "api" THEN 0 ELSE Len(ValidRows)]
                    : k \in 1..MAX_HISTORY }
    /\ storage = IF backend = "api" THEN 1..MAX_HISTORY ELSE {}
    /\ nextId = MAX_HISTORY + 1
    /\ now = MAX_HISTORY
    /\ ties = 0
    /\ pc = [i \in Ids |-> IF i <= MAX_HISTORY THEN "ok" ELSE "new"]
    /\ req = [i \in Ids |-> NoReq]
    /\ tail = [i \in Ids |-> << >>]
    /\ created = [k \in 1..MAX_HISTORY |-> [scope |-> ScopeOf(Uploader), uploaded_at |-> k]]
    /\ rejected = NoError
    /\ NoContent
    /\ NoClient
    /\ NoAccounts

\* Uploads of one user served by any number of workers: the statements of
\* different uploads interleave freely.  (An upload rejected before create()
\* touches nothing shared and is left out.)
ParNext ==
    \/ nextId <= MAX_HISTORY + MaxParallel /\ \E p \in Payloads : ApiCreate(Uploader, p)
    \/ \E i \in Ids : ApiCount(i)
    \/ \E i \in Ids : ApiSlice(i)
    \/ \E i \in Ids : ApiFileDelete(i)
    \/ \E i \in Ids : ApiDelete(i)
    \/ nextId <= MAX_HISTORY + MaxParallel /\ \E p \in Payloads : EqCreate(Uploader, p)
    \/ \E i \in Ids : EqStats(i)
    \/ \E i \in Ids : EqBulkCreate(i)
    \/ \E i \in Ids : EqSlice(i)
    \/ \E i \in Ids : EqDelete(i)

ParSpec == Loaded /\ [][ParNext]_vars

\* Bound: how many uploads may be between their create() and their response
\* at one time in OvertakeSpec.
MaxInFlight == 2

\* The uploads that have created their Dataset and have not answered yet.
InFlight == {i \in Ids : pc[i] \notin {"new", "ok", "error"}}

\* Uploads of one user served by MaxInFlight workers, from an empty database:
\* a worker takes the next upload as soon as it has answered the one before,
\* so any number of uploads may start and finish while another one is between
\* two of its statements.
OvertakeNext ==
    \/ Cardinality(InFlight) < MaxInFlight /\ nextId <= MaxUploads
          /\ \E p \in Payloads : ApiCreate(Uploader, p)
    \/ \E i \in Ids : ApiCount(i)
    \/ \E i \in Ids : ApiSlice(i)
    \/ \E i \in Ids : ApiFileDelete(i)
    \/ \E i \in Ids : ApiDelete(i)
    \/ Cardinality(InFlight) < MaxInFlight /\ nextId <= MaxUploads
          /\ \E p \in Payloads : EqCreate(Uploader, p)
    \/ \E i \in Ids : EqStats(i)
    \/ \E i \in Ids : EqBulkCreate(i)
    \/ \E i \in Ids : EqSlice(i)
    \/ \E i \in Ids : EqDelete(i)

OvertakeSpec == Init /\ [][OvertakeNext]_vars

-----------------------------------------------------------------------------
(* The content of an upload: numbers, statistics, Equipment rows.          *)

\* Bound: the significand bits a float keeps (binary64 keeps 53).
Precision == 10

\* Bound: the binary fraction digits a float keeps.
FractionBits == 2

\* Bound: the rows of the longest table uploaded.
MaxRows == 21

\* The literal 20 of `dataset.equipment_records.all()[:20]`.
RECORD_SAMPLE == 20

RECURSIVE Pow2(_)
Pow2(n) == IF n = 0 THEN 1 ELSE 2 * Pow2(n - 1)

\* A float is held as the integer value * Unit.
Unit == Pow2(FractionBits)

Abs(x) == IF x < 0 THEN -x ELSE x
Sign(x) == IF x < 0 THEN -1 ELSE 1

\* a / b rounded to an integer, ties to even (a >= 0, b > 0).
RoundHalfEven(a, b) ==
    LET q == a \div b
        r == a % b
    IN  IF 2 * r < b THEN q
        ELSE IF 2 * r > b THEN q + 1
        ELSE IF q % 2 = 0 THEN q ELSE q + 1

\* The spacing of the floats around a / b: the least power of two u >= u0 with
\* a / b < u * 2^Precision.
RECURSIVE Ulp(_, _, _)
Ulp(a, b, u0) == IF a < u0 * Pow2(Precision) * b THEN u0 ELSE Ulp(a, b, 2 * u0)

\* The float nearest to a / b, ties to even (IEEE 754): a float division, and
\* with b = 1 the rounding of an exact sum.
fdiv(a, b) == LET u == Ulp(Abs(a), b, 1) IN Sign(a) * RoundHalfEven(Abs(a), b * u) * u

\* The number a cell text denotes.
Number ==
    [t \in NumberTexts |->
        CASE t = "10" -> 10 [] t = "20" -> 20 [] t = "5" -> 5 [] t = "7" -> 7
          [] t = "300" -> 300 [] t = "310" -> 310 [] t = "-5" -> -5
          [] t = "686" -> 686 [] t = "1366" -> 1366]

\* float(text): the float nearest to the number.
float(t) == fdiv(Number[t] * Unit, 1)

\* The non-NaN values of column c, as floats (a column of numeric dtype).
Values(rows, c) ==
    LET present == SelectSeq(rows, LAMBDA r : r[c] # NaN)
    IN  [k \in 1..Len(present) |-> float(present[k][c])]

\* Series.sum(): the values added one after the other, each sum rounded.
RECURSIVE fsum(_, _)
fsum(xs, n) == IF n = 0 THEN 0 ELSE fdiv(fsum(xs, n - 1) + xs[n], 1)

\* Series.mean(): the_sum / count.
mean(xs) == fdiv(fsum(xs, Len(xs)), Len(xs))

\* Series.min(), Series.max()
min(xs) == CHOOSE x \in Range(xs) : \A y \in Range(xs) : x <= y
max(xs) == CHOOSE x \in Range(xs) : \A y \in Range(xs) : x >= y

\* Series.value_counts().to_dict(): the rows per label; NaN is not counted.
value_counts(rows) ==
    LET labels == {rows[k]["Type"] : k \in DOMAIN rows} \ {NaN}
    IN  [t \in labels |-> Cardinality({k \in DOMAIN rows : rows[k]["Type"] = t})]

\* f"{x:.2f}": the hundredths nearest to x.
Fmt2(x) == Sign(x) * RoundHalfEven(Abs(x) * 100, Unit)

\* total_count, avg_flowrate, avg_pressure, avg_temperature, equipment_types of
\* upload_csv: computed on df as read.
ApiSummary(df) ==
    [total_count |-> Len(df),
     avg_flowrate |-> mean(Values(df, "Flowrate")),
     avg_pressure |-> mean(Values(df, "Pressure")),
     avg_temperature |-> mean(Values(df, "Temperature")),
     equipment_types |-> value_counts(df)]

\* The summary dict of DatasetViewSet.upload: computed on df_clean.
EqSummary(df_clean) ==
    [total_count |-> Len(df_clean),
     avg_flowrate |-> mean(Values(df_clean, "Flowrate")),
     avg_pressure |-> mean(Values(df_clean, "Pressure")),
     avg_temperature |-> mean(Values(df_clean, "Temperature")),
     type_distribution |-> value_counts(df_clean),
     min_flowrate |-> min(Values(df_clean, "Flowrate")),
     max_flowrate |-> max(Values(df_clean, "Flowrate")),
     min_pressure |-> min(Values(df_clean, "Pressure")),
     max_pressure |-> max(Values(df_clean, "Pressure")),
     min_temperature |-> min(Values(df_clean, "Temperature")),
     max_temperature |-> max(Values(df_clean, "Temperature"))]

\* equipment_list: one Equipment per row of df_clean, in its order.
equipment_list(id, df_clean) ==
    [k \in 1..Len(df_clean) |->
        [dataset |-> id,
         equipment_name |-> df_clean[k]["Equipment Name"],
         equipment_type |-> df_clean[k]["Type"],
         flowrate |-> float(df_clean[k]["Flowrate"]),
         pressure |-> float(df_clean[k]["Pressure"]),
         temperature |-> float(df_clean[k]["Temperature"])]]

\* The order a query returns Equipment rows in (the Equipment model is not among
\* the sources): the stored order, which is the order of insertion.
StoredOrder(rows) == rows

\* dataset.equipment_records.all()
equipment_records(id) == StoredOrder(SelectSeq(equipment, LAMBDA e : e.dataset = id))

\* Mutant of Sample: one record more than RECORD_SAMPLE.
SampleOneMore(records) ==
    SubSeq(records, 1, IF Len(records) < RECORD_SAMPLE + 1 THEN Len(records) ELSE RECORD_SAMPLE + 1)

\* queryset[:20]
Sample(records) ==
    SubSeq(records, 1, IF Len(records) < RECORD_SAMPLE THEN Len(records) ELSE RECORD_SAMPLE)

\* dataset.set_summary_data(summary) ... dataset.get_summary_data() (the Dataset
\* model of this backend is not among the sources): the dict that was set, {} if
\* none was.
get_summary_data(id) == details[id].summary

-----------------------------------------------------------------------------
(* The tables PipeSpec uploads.                                            *)

Table(name, rows) ==
    [name |-> name, parses |-> TRUE, columns |-> Range(required_cols), rows |-> rows]

\* Rows: the two valid ones; a Type that differs in case only, with a negative
\* Pressure; an empty Type; a Flowrate that is not a number.
PipeRows ==
    { ValidRows[1], ValidRows[2],
      Row("Pump2", "pump", "20", "-5", "300"),
      Row("Tank1", NaN, "10", "5", "300"),
      Row("Valve2", "Valve", "abc", "7", "310") }

\* Every table of one or two of these rows.
SmallTables ==
    { Table("data.csv", <<r>>) : r \in PipeRows } \cup
    { Table("data.csv", <<r, s>>) : r \in PipeRows, s \in PipeRows }

\* For every non-empty set of required columns, a table that lacks exactly these.
LackingTables ==
    { [name |-> "short.csv", parses |-> TRUE, columns |-> Range(required_cols) \ S,
       rows |-> << Project(ValidRows[1], Range(required_cols) \ S) >>]
      : S \in (SUBSET Range(required_cols)) \ {{}} }

\* Three rows with the same Flowrate.
SameFlowrateTables ==
    { Table("data.csv", [k \in 1..3 |-> Row("Pump1", "Pump", t, "5", "300")]) : t \in {"10", "686", "1366"} }

\* MaxRows valid rows, each with its own name.
LongCsv ==
    Table("data.csv", [k \in 1..MaxRows |-> Row("E" \o ToString(k), "Pump", "10", "5", "300")])

PipeTables == CsvFiles \cup SmallTables \cup LackingTables \cup SameFlowrateTables \cup {LongCsv}

PipePayloads == [has_file : {TRUE}, file : PipeTables] \cup {[has_file |-> FALSE, file |-> NoFile]}

-----------------------------------------------------------------------------
(* The handlers, each as one step, with the content.                       *)

Ok(status, id, data) ==
    [status |-> status, error |-> "", columns |-> << >>, dataset_id |-> id, data |-> data]

Bad(e) ==
    [status |-> 400, error |-> e.error, columns |-> e.columns, dataset_id |-> 0, data |-> << >>]

IdsOf(rows) == {rows[k].id : k \in DOMAIN rows}

\* upload_csv (equipment_api), from the request to the response.
upload_csv(u, p) ==
    /\ backend = "api"
    /\ request' = p
    /\ rejected' = ApiError(p)
    /\ IF ApiError(p) # NoError
       THEN /\ reply' = Bad(ApiError(p))
            /\ UNCHANGED <<datasets, storage, nextId, now, ties, pc, created, details>>
       ELSE \E t \in Readings :
            LET df == p.file.rows
                dataset == [id |-> nextId, user |-> u, uploaded_at |-> t, file |-> TRUE,
                            total |-> Len(df), summary |-> TRUE, equipment |-> 0]
                inserted == datasets \cup {dataset}
                of_user == {d \in inserted : ScopeOf(d.user) = ScopeOf(u)}
            IN  \E old_datasets \in
                    (IF Cardinality(of_user) > MAX_HISTORY THEN SliceFrom(of_user) ELSE {<< >>}) :
                /\ datasets' = {d \in inserted : d.id \notin IdsOf(old_datasets)}
                /\ storage' = (storage \cup {nextId}) \ IdsOf(old_datasets)
                /\ details' = [i \in Ids |->
                                IF i = nextId THEN [filename |-> p.file.name, summary |-> ApiSummary(df)]
                                ELSE IF i \in IdsOf(old_datasets) THEN NoDetails
                                ELSE details[i]]
                /\ Read(t)
                /\ created' = Append(created, [scope |-> ScopeOf(u), uploaded_at |-> t])
                /\ pc' = [pc EXCEPT ![nextId] = "ok"]
                /\ nextId' = nextId + 1
                /\ reply' = Ok(200, nextId, df)
    /\ report' = NoReport
    /\ UNCHANGED <<accounts, client, backend, equipment, req, tail>>

\* DatasetViewSet.upload (chemical_equipment), from the request to the response.
DatasetViewSet_upload(u, p) ==
    /\ backend = "equipment"
    /\ request' = p
    /\ rejected' = EqError(p)
    /\ IF EqError(p) # NoError
       THEN /\ reply' = Bad(EqError(p))
            /\ UNCHANGED <<datasets, nextId, now, ties, pc, created, details, equipment>>
       ELSE \E t \in Readings :
            LET df_clean == dropna(p.file.rows)
                dataset == [id |-> nextId, user |-> u, uploaded_at |-> t, file |-> FALSE,
                            total |-> Len(df_clean), summary |-> FALSE, equipment |-> 0]
            IN  /\ Read(t)
                /\ created' = Append(created, [scope |-> ScopeOf(u), uploaded_at |-> t])
                /\ nextId' = nextId + 1
                /\ IF MeanRaises(p.file.rows)
                   THEN /\ datasets' = datasets \cup {dataset}
                        /\ details' = [details EXCEPT ![nextId] =
                                        [filename |-> p.file.name, summary |-> EmptyDict]]
                        /\ pc' = [pc EXCEPT ![nextId] = "error"]
                        /\ reply' = Bad([error |-> "Error processing CSV: ", columns |-> << >>])
                        /\ UNCHANGED equipment
                   ELSE LET saved == [dataset EXCEPT !.summary = TRUE, !.equipment = Len(df_clean)]
                            inserted == datasets \cup {saved}
                        IN  \E old_datasets \in SliceFrom(inserted) :
                            /\ datasets' = {d \in inserted : d.id \notin IdsOf(old_datasets)}
                            /\ equipment' = SelectSeq(equipment \o equipment_list(nextId, df_clean),
                                                      LAMBDA e : e.dataset \notin IdsOf(old_datasets))
                            /\ details' = [i \in Ids |->
                                            IF i = nextId
                                            THEN [filename |-> p.file.name, summary |-> EqSummary(df_clean)]
                                            ELSE IF i \in IdsOf(old_datasets) THEN NoDetails
                                            ELSE details[i]]
                            /\ pc' = [pc EXCEPT ![nextId] = "ok"]
                            /\ reply' = Ok(201, nextId, df_clean)
    /\ report' = NoReport
    /\ UNCHANGED <<accounts, client, backend, storage, req, tail>>

NotFound == [status |-> 404]

\* What generate_pdf (equipment_api) draws of a Dataset.
ApiReport(dataset) ==
    LET d == details[dataset.id]
    IN  [status |-> 200,
         id |-> dataset.id,
         info |-> [filename |-> d.filename, uploaded_at |-> dataset.uploaded_at],
         stats |-> << d.summary.total_count, Fmt2(d.summary.avg_flowrate),
                      Fmt2(d.summary.avg_pressure), Fmt2(d.summary.avg_temperature) >>,
         types |-> d.summary.equipment_types]

\* What DatasetViewSet.generate_pdf (chemical_equipment) puts into the document.
EqReport(dataset) ==
    LET summary == get_summary_data(dataset.id)
        type_dist == DictGet(summary, "type_distribution", EmptyDict)
        of(key) == DictGet(summary, key, 0)
        min_vals == << of("min_flowrate"), of("min_pressure"), of("min_temperature") >>
        avg_vals == << of("avg_flowrate"), of("avg_pressure"), of("avg_temperature") >>
        max_vals == << of("max_flowrate"), of("max_pressure"), of("max_temperature") >>
    IN  [status |-> 200,
         id |-> dataset.id,
         info |-> [filename |-> details[dataset.id].filename, uploaded_at |-> dataset.uploaded_at,
                   total_records |-> dataset.total],
         stats |-> [k \in 1..3 |-> << Fmt2(min_vals[k]), Fmt2(avg_vals[k]), Fmt2(max_vals[k]) >>],
         charts |-> IF type_dist # EmptyDict
                    THEN Some([types |-> type_dist, comparison |-> << min_vals, avg_vals, max_vals >>])
                    ELSE None,
         sample |-> Sample(equipment_records(dataset.id))]

\* Mutant of generate_pdf: the Dataset is dropped once its report is made.
generate_pdf_once(u, dataset_id) ==
    /\ backend = "api"
    /\ report' = IF get(u, dataset_id) = NoRow THEN NotFound ELSE ApiReport(get(u, dataset_id))
    /\ datasets' = {d \in datasets : d # get(u, dataset_id)}
    /\ UNCHANGED <<accounts, client, backend, storage, nextId, now, ties, pc, req, tail,
                   created, rejected, equipment, details, request, reply>>

\* generate_pdf (equipment_api)
generate_pdf(u, dataset_id) ==
    /\ backend = "api"
    /\ report' = IF get(u, dataset_id) = NoRow THEN NotFound ELSE ApiReport(get(u, dataset_id))
    /\ UNCHANGED <<accounts, client, backend, datasets, storage, nextId, now, ties, pc, req, tail,
                   created, rejected, equipment, details, request, reply>>

\* DatasetViewSet.generate_pdf (chemical_equipment); get_object() answers 404
\* when no Dataset has this pk.
DatasetViewSet_generate_pdf(u, pk) ==
    /\ backend = "equipment"
    /\ report' = IF get(u, pk) = NoRow THEN NotFound ELSE EqReport(get(u, pk))
    /\ UNCHANGED <<accounts, client, backend, datasets, storage, nextId, now, ties, pc, req, tail,
                   created, rejected, equipment, details, request, reply>>

\* A database that holds a full history with its content: MAX_HISTORY uploads of
\* data.csv by one user, made at different times.
PipeLoaded ==
    /\ backend \in Backends
    /\ datasets = { [id |-> k, user |-> Uploader, uploaded_at |-> k, file |-> (backend = "api"),
                     total |-> Len(ValidRows), summary |-> TRUE,
                     equipment |-> IF backend = "api" THEN 0 ELSE Len(ValidRows)]
                    : k \in 1..MAX_HISTORY }
    /\ storage = IF backend = "api" THEN 1..MAX_HISTORY ELSE {}
    /\ nextId = MAX_HISTORY + 1
    /\ now = MAX_HISTORY
    /\ ties = 0
    /\ pc = [i \in Ids |-> IF i <= MAX_HISTORY THEN "ok" ELSE "new"]
    /\ req = [i \in Ids |-> NoReq]
    /\ tail = [i \in Ids |-> << >>]
    /\ created = [k \in 1..MAX_HISTORY |-> [scope |-> ScopeOf(Uploader), uploaded_at |-> k]]
    /\ rejected = NoError
    /\ equipment = IF backend = "api" THEN << >>
                   ELSE [n \in 1..(MAX_HISTORY * Len(ValidRows)) |->
                            equipment_list((n + 1) \div 2, ValidRows)[2 - (n % 2)]]
    /\ details = [i \in Ids |->
                    IF i > MAX_HISTORY THEN NoDetails
                    ELSE [filename |-> GoodCsv.name,
                          summary |-> IF backend = "api" THEN ApiSummary(ValidRows)
                                      ELSE EqSummary(ValidRows)]]
    /\ request = [has_file |-> FALSE, file |-> NoFile]
    /\ reply = NoResponse
    /\ report = NoReport
    /\ NoClient
    /\ NoAccounts

\* One upload of one user on top of the full history, and reports of any Dataset
\* for any user, before and after it.
PipeNext ==
    \/ nextId = MAX_HISTORY + 1 /\ \E p \in PipePayloads : upload_csv(Uploader, p)
    \/ nextId = MAX_HISTORY + 1 /\ \E p \in PipePayloads : DatasetViewSet_upload(Uploader, p)
    \/ \E u \in Users, id \in Ids : generate_pdf(u, id)
    \/ \E u \in Users, id \in Ids : DatasetViewSet_generate_pdf(u, id)

PipeSpec == PipeLoaded /\ [][PipeNext]_vars

-----------------------------------------------------------------------------
(* The desktop client: src/frontend-desktop/main.py.  Qt runs every slot   *)
(* to its end on the GUI thread and requests.get/post block, so a slot is  *)
(* one step.                                                               *)

\* Bound: how many requests the client sends in one behaviour.
MaxRequests == 4

\* Bound: how many LoginWindows may be open at one time.
MaxWindows == 2

\* What the server may hand out as response.json()['token'].
Tokens == {"", "k1", "k2"}

\* What QFileDialog.getOpenFileName may return; "" when the dialog is cancelled.
FileNames == {"", "a.csv"}

\* The dataset ids a 200 answer of /history/ may list.
Listings == {{}, {1}, {1, 2}}

\* Python's `not x` for an attribute that holds None or a string.
Falsy(x) == x = None \/ x = Some("")

\* A request as the server sees it: the endpoint and the Authorization header.
Request(kind, auth) == [kind |-> kind, auth |-> auth]

\* The state of the server, which no step of the client changes.
server == <<backend, datasets, storage, nextId, now, ties, pc, req, tail, created, rejected, content,
           accounts>>

\* MainWindow.__init__ and init_ui: no token, no data, one LoginWindow shown.
\* The client speaks to equipment_api (API_URL/upload/, /history/, /generate-pdf/).
ClientInit ==
    /\ backend = "api"
    /\ datasets = {}
    /\ storage = {}
    /\ nextId = 1
    /\ now = 0
    /\ ties = 0
    /\ pc = [i \in Ids |-> "new"]
    /\ req = [i \in Ids |-> NoReq]
    /\ tail = [i \in Ids |-> << >>]
    /\ created = << >>
    /\ rejected = NoError
    /\ NoContent
    /\ token = None
    /\ current_data = None
    /\ current_summary = None
    /\ selected_file = NoAttr
    /\ login_windows = 1
    /\ history_table = {}
    /\ sent = << >>
    /\ NoAccounts

\* MainWindow.load_history with self.token = tok, the log and the table as
\* given: the outcomes it may have.  A 200 answer replaces the rows of the
\* table; any other answer, or an exception, leaves them.
LoadHistory(tok, log, table) ==
    IF Falsy(tok)
    THEN {[sent |-> log, history_table |-> table]}
    ELSE {[sent |-> Append(log, Request("history", tok)), history_table |-> h]
            : h \in Listings \cup {table}}

\* MainWindow.load_history, by the Refresh button.
load_history ==
    /\ Len(sent) < MaxRequests
    /\ \E o \in LoadHistory(token, sent, history_table) :
        /\ sent' = o.sent
        /\ history_table' = o.history_table
    /\ UNCHANGED <<server, token, current_data, current_summary, selected_file, login_windows>>

\* MainWindow.set_token(token), called with the log as it is after the login request.
set_token(t, log) ==
    /\ token' = Some(t)
    /\ \E o \in LoadHistory(Some(t), log, history_table) :
        /\ sent' = o.sent
        /\ history_table' = o.history_table

\* LoginWindow.login: on a 200 answer with a token, parent.set_token(token) and
\* the window closes; otherwise (another status, an exception, an answer
\* without 'token') a message box and nothing else.
LoginWindow_login ==
    /\ login_windows > 0
    /\ Len(sent) < MaxRequests
    /\ \/ \E t \in Tokens :
            /\ set_token(t, Append(sent, Request("login", None)))
            /\ login_windows' = login_windows - 1
       \/ /\ sent' = Append(sent, Request("login", None))
          /\ UNCHANGED <<token, history_table, login_windows>>
    /\ UNCHANGED <<server, current_data, current_summary, selected_file>>

\* LoginWindow.register: whatever the answer, a message box only.
LoginWindow_register ==
    /\ login_windows > 0
    /\ Len(sent) < MaxRequests
    /\ sent' = Append(sent, Request("register", None))
    /\ UNCHANGED <<server, token, current_data, current_summary, selected_file, login_windows,
                   history_table>>

\* MainWindow.logout
logout ==
    /\ login_windows < MaxWindows
    /\ token' = None
    /\ current_data' = None
    /\ current_summary' = None
    /\ login_windows' = login_windows + 1
    /\ UNCHANGED <<server, selected_file, history_table, sent>>

\* MainWindow.browse_file
browse_file ==
    /\ \E filename \in FileNames :
        selected_file' = IF filename # "" THEN filename ELSE selected_file
    /\ UNCHANGED <<server, token, current_data, current_summary, login_windows, history_table, sent>>

\* upload_file past its first test: the request is sent (unless open() fails);
\* a 200 answer sets current_data, then current_summary, and reloads the
\* history; an answer without 'summary' raises after current_data is set.
Upload ==
    \/ /\ current_data' = Some("data")
       /\ current_summary' = Some("summary")
       /\ \E o \in LoadHistory(token, Append(sent, Request("upload", token)), history_table) :
            /\ sent' = o.sent
            /\ history_table' = o.history_table
    \/ /\ sent' = Append(sent, Request("upload", token))
       /\ current_data' = Some("data")
       /\ UNCHANGED <<current_summary, history_table>>
    \/ /\ sent' = Append(sent, Request("upload", token))
       /\ UNCHANGED <<current_data, current_summary, history_table>>
    \/ UNCHANGED <<current_data, current_summary, history_table, sent>>

\* Mutant of upload_file: self.token is not tested.
upload_file_any_token ==
    /\ Len(sent) < MaxRequests
    /\ IF selected_file = NoAttr
       THEN UNCHANGED <<current_data, current_summary, history_table, sent>>
       ELSE Upload
    /\ UNCHANGED <<server, token, selected_file, login_windows>>

\* MainWindow.upload_file
upload_file ==
    /\ Len(sent) < MaxRequests
    /\ IF selected_file = NoAttr \/ Falsy(token)
       THEN UNCHANGED <<current_data, current_summary, history_table, sent>>
       ELSE Upload
    /\ UNCHANGED <<server, token, selected_file, login_windows>>

\* MainWindow.download_pdf(dataset_id), by the button of a row of history_table:
\* nothing of the client's state changes, whatever the answer.
download_pdf(dataset_id) ==
    /\ Len(sent) < MaxRequests
    /\ sent' = IF Falsy(token) THEN sent ELSE Append(sent, Request("pdf", token))
    /\ UNCHANGED <<server, token, current_data, current_summary, selected_file, login_windows,
                   history_table>>

ClientNext ==
    \/ LoginWindow_login
    \/ LoginWindow_register
    \/ logout
    \/ browse_file
    \/ upload_file
    \/ load_history
    \/ \E dataset_id \in history_table : download_pdf(dataset_id)

ClientSpec == ClientInit /\ [][ClientNext]_vars

-----------------------------------------------------------------------------
(* The accounts: register and login of equipment_api.  register opens no   *)
(* transaction and takes no lock, so each of its three database statements *)
(* is one step and the statements of parallel calls interleave.            *)

\* request.data.get('username'): None when the key is missing.  "ann_wide"
\* stands for "ann" written in fullwidth letters (U+FF41 U+FF4E U+FF4E).
Usernames == {None, Some(""), Some("ann"), Some("ann_wide"), Some("ben")}

\* request.data.get('password')
Passwords == {None, Some("pw")}

\* AbstractBaseUser.normalize_username: unicodedata.normalize('NFKC', username).
normalize_username(username) == IF username = "ann_wide" THEN "ann" ELSE username

\* User.objects.filter(username=username): the text is compared as given.
filter(username) == {u \in auth_user : Some(u.username) = username}

\* The column auth_user.username is UNIQUE: an INSERT of a name the table
\* holds raises IntegrityError.
IntegrityError(name) == \E u \in auth_user : u.username = name

\* Token.objects.get_or_create(user=user): the token of the user, made if
\* there is none.  The key is generated; here the next unused number.
get_or_create(user) ==
    IF \E t \in authtoken_token : t.user = user
    THEN authtoken_token
    ELSE authtoken_token \cup {[key |-> Cardinality(authtoken_token) + 1, user |-> user]}

\* The token get_or_create returns, in the table it leaves.
TokenOf(user, table) == CHOOSE t \in table : t.user = user

Done(c, response) ==
    registering' = [registering EXCEPT ![c].at = "done", ![c].response = response]

\* register, to its first statement: if User.objects.filter(username=username).exists()
register_exists(c, username, password) ==
    /\ backend = "api"
    /\ registering[c].at = "new"
    /\ \A b \in Calls : b < c => registering[b].at # "new"
    /\ IF filter(username) # {}
       THEN registering' = [registering EXCEPT
                ![c] = [at |-> "done", username |-> username, password |-> password, user |-> 0,
                        response |-> [status |-> 400, error |-> "Username already exists",
                                      token |-> "", user |-> 0]]]
       ELSE registering' = [registering EXCEPT
                ![c] = [at |-> "create_user", username |-> username, password |-> password,
                        user |-> 0, response |-> NoAnswer]]
    /\ UNCHANGED <<auth_user, authtoken_token, client, content, backend, datasets, storage,
                   nextId, now, ties, pc, req, tail, created, rejected>>

\* user = User.objects.create_user(username=..., password=..., email=...):
\* ValueError for a missing or empty username, else the name is normalized and
\* the row inserted.  register catches no exception: the answer is a 500.
register_create_user(c) ==
    /\ backend = "api"
    /\ registering[c].at = "create_user"
    /\ LET username == registering[c].username
           name == normalize_username(username[1])
           id == Cardinality(auth_user) + 1
       IN  IF username = None \/ username = Some("")
           THEN /\ Done(c, [status |-> 500, error |-> "ValueError", token |-> "", user |-> 0])
                /\ UNCHANGED auth_user
           ELSE IF IntegrityError(name)
           THEN /\ Done(c, [status |-> 500, error |-> "IntegrityError", token |-> "", user |-> 0])
                /\ UNCHANGED auth_user
           ELSE /\ auth_user' = auth_user \cup
                        {[id |-> id, username |-> name, password |-> registering[c].password]}
                /\ registering' = [registering EXCEPT ![c].at = "get_or_create", ![c].user = id]
    /\ UNCHANGED <<authtoken_token, client, content, backend, datasets, storage,
                   nextId, now, ties, pc, req, tail, created, rejected>>

\* token, _ = Token.objects.get_or_create(user=user); return Response({'token': ..., 'user': ...}, 201)
register_get_or_create(c) ==
    /\ backend = "api"
    /\ registering[c].at = "get_or_create"
    /\ authtoken_token' = get_or_create(registering[c].user)
    /\ Done(c, [status |-> 201, error |-> "",
                token |-> TokenOf(registering[c].user, authtoken_token').key,
                user |-> registering[c].user])
    /\ UNCHANGED <<auth_user, client, content, backend, datasets, storage,
                   nextId, now, ties, pc, req, tail, created, rejected>>

\* login: authenticate(username=..., password=...) finds the user by the name
\* as given and checks the password (a user made without one has none that
\* matches); then Token.objects.get_or_create(user=user).  Users are never
\* changed or deleted, so the two statements are taken as one step.
login(username, password) ==
    /\ backend = "api"
    /\ \E u \in filter(username) :
        /\ password # None /\ u.password = password
        /\ authtoken_token' = get_or_create(u.id)
    /\ UNCHANGED <<auth_user, registering, client, content, backend, datasets, storage,
                   nextId, now, ties, pc, req, tail, created, rejected>>

\* Any number of register calls in flight, and logins between their statements.
RegisterNext ==
    \/ \E c \in Calls, username \in Usernames, password \in Passwords :
            register_exists(c, username, password)
    \/ \E c \in Calls : register_create_user(c)
    \/ \E c \in Calls : register_get_or_create(c)
    \/ \E username \in Usernames, password \in Passwords : login(username, password)

RegisterInit == Init /\ backend = "api"

RegisterSpec == RegisterInit /\ [][RegisterNext]_vars

-----------------------------------------------------------------------------
(* Properties.                                                             *)

\* The Datasets a scope holds.
History(s) == {d \in datasets : ScopeOf(d.user) = s}

\* A user whose requests see scope s.
UserOf(s) == IF backend = "api" THEN s ELSE Uploader

\* The ids create() has inserted into scope s, and how many they are.
Inserted(s) == {i \in DOMAIN created : created[i].scope = s}
N(s) == Cardinality(Inserted(s))

\* The ids of scope s that get() no longer finds.
Unreachable(s) == {i \in Inserted(s) : get(UserOf(s), i) = NoRow}

\* The n oldest-inserted / most recently inserted ids of scope s.
Oldest(s, n) == {i \in Inserted(s) : Cardinality({j \in Inserted(s) : j < i}) < n}
Latest(s, n) == {i \in Inserted(s) : Cardinality({j \in Inserted(s) : j > i}) < n}

\* Every upload into scope s has answered with success.
AllSucceeded(s) == \A i \in Inserted(s) : pc[i] = "ok"

\* C1: whenever no upload is in flight (every upload so far, failed ones
\* included, has completed), each owner scope holds at most MAX_HISTORY Datasets.
C1_BoundedHistory ==
    AtRest => \A s \in Scopes : Cardinality(History(s)) <= MAX_HISTORY

C3_OldestFirstEviction ==
    \A s \in Scopes :
        (AtRest /\ AllSucceeded(s)) =>
            /\ {d.id : d \in History(s)} = Latest(s, MAX_HISTORY)
            /\ N(s) = MAX_HISTORY + 1 =>
                /\ get(UserOf(s), CHOOSE i \in Inserted(s) : \A j \in Inserted(s) : i <= j) = NoRow
                /\ \A l \in list(UserOf(s)) : Len(l) = MAX_HISTORY

\* C4: once all the uploads that ran in parallel into a scope have completed,
\* the scope holds at most MAX_HISTORY Datasets, whatever the interleaving was.
C4_ParallelBound ==
    (nextId = MAX_HISTORY + MaxParallel + 1 /\ \A i \in 1..(nextId - 1) : pc[i] \in {"ok", "error"}) =>
        \A s \in Scopes : Cardinality(History(s)) <= MAX_HISTORY

\* C5: at no moment can a request find, by get(), more than MAX_HISTORY
\* Datasets in a scope: insert and eviction are one atomic step for every
\* other request.
C5_AtomicInsertEvict ==
    \A s \in Scopes :
        Cardinality({i \in Ids : get(UserOf(s), i) # NoRow}) <= MAX_HISTORY

\* C6: an upload that answered with an error has left no Dataset behind, and
\* with no upload in flight every Dataset held carries its summary and all of
\* its records.
C6_FailedUploadLeavesNothing ==
    /\ \A i \in Ids : pc[i] = "error" => RowWithId(i) = {}
    /\ AtRest => \A d \in datasets :
            /\ d.summary
            /\ backend = "equipment" => d.equipment = d.total

\* C7: of two Datasets of a scope with equal createdAt, list() puts the one
\* inserted later first, and eviction never removes the one inserted later
\* while it keeps the one inserted earlier.
C7_TieBreakByInsertion ==
    \A s \in Scopes :
        /\ \A l \in list(UserOf(s)) : \A k \in 1..(Len(l) - 1) :
                l[k].uploaded_at = l[k + 1].uploaded_at => l[k].id > l[k + 1].id
        /\ (AtRest /\ AllSucceeded(s)) =>
                \A i \in Unreachable(s) : \A d \in History(s) :
                    created[i].uploaded_at = d.uploaded_at => i < d.id

\* C8: the storage holds no file of a Dataset that is no longer in the table:
\* every eviction has released the evicted Dataset's raw file.
C8_EvictionReleasesFile ==
    \A id \in storage : RowWithId(id) # {}

\* C8 witness: "api" has evicted a Dataset whose file was stored, and still
\* holds files of the Datasets it kept.
C8_Witness ==
    /\ backend = "api" /\ AtRest
    /\ \E s \in Scopes : Unreachable(s) # {}
    /\ storage # {}

\* C9: get(owner, id) finds a Dataset exactly when id was inserted into that
\* owner's scope and its row is still held, and then returns that Dataset; an
\* evicted id, an id never handed out and an id of another owner's scope all
\* get the same not-found answer.
C9_GetFindsOwnHistory ==
    \A u \in Users : \A i \in 0..(MaxUploads + 1) :
        IF i \in DOMAIN created /\ created[i].scope = ScopeOf(u) /\ RowWithId(i) # {}
        THEN get(u, i) \in RowWithId(i)
        ELSE get(u, i) = NoRow

\* C9 witness: one owner's evicted id and never-inserted id are both not found,
\* and a Dataset of another owner is found by that owner only.
C9_Witness ==
    /\ backend = "api" /\ AtRest
    /\ \E u \in Users : \E v \in Users \ {u} :
        /\ \E i \in Unreachable(u) : get(u, i) = NoRow
        /\ get(u, nextId) = NoRow
        /\ \E j \in Inserted(v) : get(v, j) # NoRow /\ get(u, j) = NoRow

\* C10: a step of an upload into one scope (its insert, its count, its
\* eviction) leaves the Datasets of every other scope as they were.
C10_CrossScopeIndependence ==
    [][ \A i \in Ids : \A s \in Scopes :
            (pc'[i] # pc[i] /\ created'[i].scope # s) =>
                {d \in datasets' : ScopeOf(d.user) = s} = History(s) ]_vars

\* C10 witness: one owner's upload has evicted from that owner's history while
\* another owner holds Datasets.
C10_Witness ==
    /\ backend = "api" /\ AtRest
    /\ \E u \in Users : \E v \in Users \ {u} :
        /\ Unreachable(u) # {}
        /\ History(v) # {}
        /\ Unreachable(v) = {}

-----------------------------------------------------------------------------
(* Properties of the content (PipeSpec).                                   *)

\* The required columns the table of the upload served last lacks.
Lacking == Range(required_cols) \ request.file.columns

\* The upload served last carried a file that reads as a table, under a name
\* both backends take.
ReadAsTable ==
    /\ reply # NoResponse
    /\ request.has_file /\ request.file.parses /\ request.file.name \in CsvNames

\* The three errors of parsing, by the text of the response.
IsSchemaError(r) ==
    r.status = 400 /\ r.error \in {"Invalid CSV format. Required columns: ", "Missing required columns: "}
IsEmptyResultError(r) == r.status = 400 /\ r.error = "No valid data found in CSV"
IsMalformedInputError(r) == r.status = 400 /\ r.error \in {"str(e)", "Error processing CSV: "}

\* The upload served last stored nothing: the table holds what it held before.
NothingStored ==
    /\ nextId = MAX_HISTORY + 1
    /\ {d.id : d \in datasets} = 1..MAX_HISTORY
    /\ \A i \in Ids : i > MAX_HISTORY => details[i] = NoDetails
    /\ \A k \in DOMAIN equipment : equipment[k].dataset <= MAX_HISTORY

\* A row in which the five fields are present and the three numeric ones parse.
ValidRow(r) ==
    /\ \A c \in Range(required_cols) : r[c] # NaN
    /\ \A c \in numeric_cols : r[c] \in NumberTexts

Cleaned(rows) == SelectSeq(rows, ValidRow)

\* The Dataset the upload served last answered with, if it is held.
Answered == {d \in datasets : d.id = reply.dataset_id}

\* The type distribution stored with Dataset id.
TypeDistribution(id) ==
    IF backend = "api" THEN details[id].summary.equipment_types
    ELSE DictGet(get_summary_data(id), "type_distribution", EmptyDict)

RECURSIVE SumOver(_, _)
SumOver(f, S) ==
    IF S = {} THEN 0
    ELSE LET k == CHOOSE k \in S : TRUE IN f[k] + SumOver(f, S \ {k})

\* C11: an upload of a table that lacks a non-empty set S of the required
\* columns is answered with the schema error, which lists exactly the columns
\* of S, and stores nothing.
C11_SchemaErrorExact ==
    (ReadAsTable /\ Lacking # {}) =>
        /\ IsSchemaError(reply)
        /\ Range(reply.columns) = Lacking
        /\ NothingStored

\* C12: an upload of a table that has the five columns and in which every row
\* has a missing or unparseable required field is answered with the
\* empty-result error (not the schema error, not the malformed-input error),
\* and no Dataset is created.
C12_EmptyResultError ==
    (ReadAsTable /\ Lacking = {} /\ Cleaned(request.file.rows) = << >>) =>
        /\ IsEmptyResultError(reply)
        /\ ~IsSchemaError(reply) /\ ~IsMalformedInputError(reply)
        /\ NothingStored

\* C13: an upload of a table with at least one fully valid row succeeds, and
\* the Dataset it stores retains exactly the valid rows, in input order, its
\* record count being their number: invalid rows are dropped and never make the
\* upload fail.
C13_RowCleaningExact ==
    (ReadAsTable /\ Lacking = {} /\ Cleaned(request.file.rows) # << >>) =>
        /\ reply.status \in {200, 201}
        /\ reply.data = Cleaned(request.file.rows)
        /\ \E d \in Answered : d.total = Len(Cleaned(request.file.rows))
        /\ backend = "equipment" =>
                equipment_records(reply.dataset_id) =
                    equipment_list(reply.dataset_id, Cleaned(request.file.rows))

\* C14: for every Dataset held, the values of its type distribution sum to its
\* count, and the distribution of the Dataset stored last has one key per
\* distinct Type value (compared as exact strings) of the rows it counted.
C14_TypeDistributionSumsToCount ==
    \A d \in datasets :
        /\ SumOver(TypeDistribution(d.id), DOMAIN TypeDistribution(d.id)) = d.total
        /\ d \in Answered =>
                DOMAIN TypeDistribution(d.id) =
                    {reply.data[k]["Type"] : k \in DOMAIN reply.data} \ {NaN}

\* C15: for every summary stored by DatasetViewSet.upload, and independently
\* for flowrate, pressure and temperature: min <= avg <= max.
C15_MinAvgMax ==
    \A d \in datasets :
        (backend = "equipment" /\ get_summary_data(d.id) # EmptyDict) =>
            LET s == get_summary_data(d.id)
            IN  /\ s.min_flowrate <= s.avg_flowrate /\ s.avg_flowrate <= s.max_flowrate
                /\ s.min_pressure <= s.avg_pressure /\ s.avg_pressure <= s.max_pressure
                /\ s.min_temperature <= s.avg_temperature /\ s.avg_temperature <= s.max_temperature

\* C16: no report is returned for a Dataset whose stored summary is
\* structurally invalid (an empty type distribution while its count is above
\* zero): the request for it fails.
C16_InconsistentSummaryRejected ==
    report.status = 200 =>
        \A d \in datasets :
            d.id = report.id => ~(TypeDistribution(d.id) = EmptyDict /\ d.total > 0)

\* C17: the record sample of a report of DatasetViewSet.generate_pdf is the
\* first min(RECORD_SAMPLE, n) of the n records stored for the Dataset, in their
\* stored order: never more than RECORD_SAMPLE, none of another Dataset, none
\* out of order.
C17_RecordSample ==
    (backend = "equipment" /\ report.status = 200) =>
        LET records == SelectSeq(equipment, LAMBDA e : e.dataset = report.id)
            n == IF Len(records) < RECORD_SAMPLE THEN Len(records) ELSE RECORD_SAMPLE
        IN  /\ Len(report.sample) = n
            /\ \A k \in 1..n : report.sample[k] = records[k]
            /\ Len(report.sample) <= RECORD_SAMPLE
            /\ \A k \in DOMAIN report.sample : report.sample[k].dataset = report.id

\* C17 witness: a report of a Dataset that stores more than RECORD_SAMPLE
\* records, its sample RECORD_SAMPLE long, while other Datasets hold records.
C17_Witness ==
    /\ backend = "equipment" /\ report.status = 200
    /\ Len(equipment_records(report.id)) > RECORD_SAMPLE
    /\ Len(report.sample) = RECORD_SAMPLE
    /\ \E k \in DOMAIN equipment : equipment[k].dataset # report.id

\* C18: a request for a report leaves the store (the Datasets of every scope,
\* their order and content, the Equipment rows, the files) as it was; and a
\* report made of a Dataset right after a report of the same Dataset, no upload
\* in between, is equal to it.
C18_ReportIdempotentReadOnly ==
    [][ report' # NoReport =>
            /\ UNCHANGED <<datasets, storage, equipment, details, created, nextId>>
            /\ \A u \in Users : list(u) = {SubSeq(o, 1, IF Len(o) < MAX_HISTORY THEN Len(o) ELSE MAX_HISTORY)
                                            : o \in QueryOrderings({d \in datasets' : ScopeOf(d.user) = ScopeOf(u)})}
            /\ (report.status = 200 /\ report'.status = 200 /\ report'.id = report.id) => report' = report
      ]_vars

\* C18 witness: a report has been made of the Dataset the upload stored.
C18_Witness ==
    /\ report.status = 200
    /\ reply.status \in {200, 201}
    /\ report.id = reply.dataset_id
    /\ Answered # {}

-----------------------------------------------------------------------------
(* Properties of concurrent uploads (OvertakeSpec).                        *)

\* C19: at the step by which an upload gives its success response, the Dataset
\* it created (the one the response names) is a row of the history of the
\* scope it was uploaded to.
C19_SuccessNamesLiveDataset ==
    [][ \A i \in Ids :
            (pc[i] # "ok" /\ pc'[i] = "ok") =>
                \E d \in datasets' : d.id = i /\ ScopeOf(d.user) = ScopeOf(req[i].user)
      ]_vars

-----------------------------------------------------------------------------
(* Properties of the desktop client (ClientSpec).                          *)

\* The requests that need the token.
Gated == {"upload", "history", "pdf"}

\* C20: every upload, history or PDF request the client sends is sent while
\* self.token is set and carries it; whenever the token is None so are
\* current_data and current_summary, and logout leaves all three None; and from
\* a state without a token no upload, history or PDF request is sent unless the
\* same step has sent a login request first and set_token has set the token.
C20_TokenGating ==
    [][ /\ \A k \in (Len(sent) + 1)..Len(sent') :
            sent'[k].kind \in Gated =>
                /\ token' # None /\ token' # Some("")
                /\ sent'[k].auth = token'
        /\ token' = None => (current_data' = None /\ current_summary' = None)
        /\ login_windows' > login_windows =>
                (token' = None /\ current_data' = None /\ current_summary' = None)
        /\ (token = None /\ \E k \in (Len(sent) + 1)..Len(sent') : sent'[k].kind \in Gated) =>
                /\ sent'[Len(sent) + 1].kind = "login"
                /\ token' # None
                /\ login_windows' = login_windows - 1
      ]_vars

\* C20 witness: logged out after a session in which a file was uploaded and
\* a history listed: no token, no data, a file still selected and the PDF
\* buttons of the listed Datasets still shown.
C20_Witness ==
    /\ token = None /\ current_data = None /\ current_summary = None
    /\ selected_file # NoAttr
    /\ history_table # {}
    /\ login_windows > 0
    /\ \E k \in DOMAIN sent : sent[k].kind = "upload"
    /\ \E k \in DOMAIN sent : sent[k].kind = "history"

-----------------------------------------------------------------------------
(* Properties of the accounts (RegisterSpec).                              *)

\* No two users have one username.
UsernameUnique(table) == \A u, v \in table : u.username = v.username => u = v

\* C21: at most one user exists per username; a register call that answers
\* while a user it did not create holds the username it asked for answers
\* 'Username already exists' and has created no user and no token; and a
\* register call that answers 201 returns the one token of the user it created.
C21_RegisterUnique ==
    [][ /\ UsernameUnique(auth_user')
        /\ \A c \in Calls :
            (registering[c].at # "done" /\ registering'[c].at = "done") =>
                LET call == registering'[c]
                    r == call.response
                IN  /\ (\E u \in auth_user' : Some(u.username) = call.username /\ u.id # call.user) =>
                            /\ r.status = 400 /\ r.error = "Username already exists"
                            /\ auth_user' = auth_user
                            /\ authtoken_token' = authtoken_token
                    /\ r.status = 201 =>
                            /\ \E u \in auth_user' : u.id = r.user /\ u.id = call.user
                            /\ {t \in authtoken_token' : t.user = r.user}
                                    = {[key |-> r.token, user |-> r.user]}
      ]_vars

====
